---- MODULE Spec2Model ----
(***************************************************************************)
(* A model of update_localization.py: the LocalizedString record, the      *)
(* merge of an old and a new table (merge_strings), the line parser        *)
(* (LocalizedStringLineParser.parse_line with the regular expressions of   *)
(* LocalizedString), the reading and writing of table files (parse_file,   *)
(* write_file, sort_strings), merge_files, the runs of gen_strings and      *)
(* gen_strings_interface with their temporary folder, and find_sources.    *)
(*                                                                         *)
(* A text is a sequence of characters, each character a one-character      *)
(* string; a line is a text.  Python's None is the sequence <<"None">>,    *)
(* which is no text because "None" is no character.                        *)
(***************************************************************************)
EXTENDS Integers, Sequences, FiniteSets, TLC

VARIABLES
    old_strings,     \* merge_strings: the dictionary of the old strings
    new_strings,     \* merge_strings: the dictionary of the new strings
    keep_comment,    \* merge_strings: the flag
    merged_strings,  \* merge_strings: the dictionary it returns
    mpc,             \* "call": the arguments are set; "return": merge_strings has returned
    new_in,          \* the new dictionary as it was passed to the call
    sticky,          \* per key: the translated value of the first old table, while
                     \* every new table so far held the key; None otherwise
    runs,            \* number of merges started
    parser,          \* the LocalizedStringLineParser object: parse_state, key, value,
                     \* comment, comment_partial, value_partial
    returned,        \* what the last call of parse_line returned: a string or None
    line,            \* the line the last call of parse_line was given
    fed,             \* number of calls of parse_line so far
    waited,          \* number of calls that found and left the parser in state STRING
                     \* since it last entered that state
    raised,          \* a call of parse_line has raised an exception
    localized_strings, \* parse_file: the dictionary of the strings returned so far
    emitted,         \* the strings parse_line has returned so far, in order
    strings,         \* the dictionary given to write_file or returned by parse_file
    given,           \* the dictionary first given to write_file
    tpc,             \* where the writing and reading back of a table stands
    disk,            \* per path: the text of the file, or Absent
    coding,          \* per path: how the bytes of the file encode its text
    before,          \* the files as they were when merge_files was called
    output,          \* sort_strings: the list it returned to write_file
    fpc,             \* where merge_files stands
    tool,            \* the run: "genstrings" (gen_strings) or "ibtool" (gen_strings_interface)
    temp_folder,     \* the temporary folder of the run: "none", "exists", "removed"
    temp_files,      \* per name: the table file of that name in the temporary folder
    pending,         \* gen_strings_interface: the interface files not yet exported
    processed,       \* the tables merge_files was called for and has returned
    rpc,             \* where the run stands
    tree,            \* find_sources: per directory path under the root its file names
    extensions,      \* find_sources: the extensions, or None
    ignore_patterns, \* find_sources: the ignore patterns, or None
    code_file_paths, \* find_sources: the paths it returns
    spc              \* where find_sources stands

mergeVars == <<old_strings, new_strings, keep_comment, merged_strings, mpc, new_in,
               sticky, runs>>

parserVars == <<parser, returned, line, fed, waited, raised, localized_strings, emitted>>

tableVars == <<strings, given, tpc>>

fileVars == <<disk, coding, before, output, fpc>>

runVars == <<tool, temp_folder, temp_files, pending, processed, rpc>>

findVars == <<tree, extensions, ignore_patterns, code_file_paths, spc>>

vars == <<mergeVars, parserVars, tableVars, fileVars, runVars, findVars>>

None == <<"None">>

\* ---------------------------------------------------------------- bounds

\* Merges chained one after the other (each on the result of the one before).
MaxRuns == 3

\* Lines fed to one parser.
MaxLines == 4

\* The keys, the translated values and the comments the tables are built of.
Keys == {<<"a">>, <<"b">>}
TransValues == {<<"x">>, <<"y">>}
CommentTexts == {<<"c">>, <<"d">>}

\* ------------------------------------------------------- LocalizedString

LocalizedString(k, v, c) == [key |-> k, value |-> v, comment |-> c]

is_raw(s) == s.value = s.key

\* LocalizedString.__eq__
LsEq(s1, s2) == s1.key = s2.key /\ s1.value = s2.value /\ s1.comment = s2.comment

\* ----------------------------------------------------------- dictionaries

EmptyDict == [k \in {} |-> None]

DictPut(d, k, v) == [x \in DOMAIN d \cup {k} |-> IF x = k THEN v ELSE d[x]]

DictDel(d, k) == [x \in DOMAIN d \ {k} |-> d[x]]

\* The records one key can carry in a table read from a file: the value is the
\* key itself (raw) or a translation, the comment is a text.
RecordsOf(k) ==
    {LocalizedString(k, v, c) : v \in {k} \cup TransValues, c \in CommentTexts}

\* The tables parse_file can return over Keys: each key maps to a record of its own.
Tables ==
    UNION {{t \in [ks -> UNION {RecordsOf(k) : k \in ks}] :
               \A k \in ks : t[k].key = k} : ks \in SUBSET Keys}

\* Every order in which the keys of a set can be iterated.
Orders(S) ==
    {o \in [1..Cardinality(S) -> S] : \A i, j \in 1..Cardinality(S) : o[i] = o[j] => i = j}

\* -------------------------------------------------------- merge_strings

\* MergeRaw that takes the new comment whatever the flag says.
MergeRaw_NewComment(old_string, new_string, keep) == new_string

\* The old string is raw: the new string is taken (lines 671-675).
MergeRaw(old_string, new_string, keep) ==
    [new_string EXCEPT !.comment = IF keep THEN old_string.comment ELSE @]

\* MergeTranslated with the assignment of the old value left out.
MergeTranslated_NoValue(old_string, new_string, keep) ==
    [new_string EXCEPT !.comment = IF keep THEN old_string.comment ELSE @]

\* MergeTranslated that keeps the old comment whatever the flag says.
MergeTranslated_OldComment(old_string, new_string, keep) ==
    [new_string EXCEPT !.value = old_string.value, !.comment = old_string.comment]

\* MergeTranslated that takes the new comment whatever the flag says.
MergeTranslated_NewComment(old_string, new_string, keep) ==
    [new_string EXCEPT !.value = old_string.value]

\* MergeTranslated that prefers a new value that is itself a translation.
MergeTranslated_Smart(old_string, new_string, keep) ==
    [new_string EXCEPT !.value = IF is_raw(new_string) THEN old_string.value ELSE @,
                       !.comment = IF keep THEN old_string.comment ELSE @]

\* The old string is translated: its value is kept (lines 676-681).
MergeTranslated(old_string, new_string, keep) ==
    [new_string EXCEPT !.value = old_string.value,
                       !.comment = IF keep THEN old_string.comment ELSE @]

\* The body of the first loop for a key that is in new_strings too: the string
\* stored in merged_strings (lines 670-681).
MergeBoth(old_string, new_string, keep) ==
    IF is_raw(old_string)
    THEN MergeRaw(old_string, new_string, keep)
    ELSE MergeTranslated(old_string, new_string, keep)

\* MergeOldKey without the del of the key from new_strings.
MergeOldKey_NoDel(key, old, st, keep) ==
    IF key \in DOMAIN st.new
    THEN [new    |-> st.new,
          merged |-> DictPut(st.merged, key, MergeBoth(old[key], st.new[key], keep))]
    ELSE st

\* MergeOldKey that keeps a key that is in old_strings only.
MergeOldKey_KeepOld(key, old, st, keep) ==
    IF key \in DOMAIN st.new
    THEN [new    |-> DictDel(st.new, key),
          merged |-> DictPut(st.merged, key, MergeBoth(old[key], st.new[key], keep))]
    ELSE [st EXCEPT !.merged = DictPut(st.merged, key, old[key])]

\* MergeOldKey that stores the merged string in the raw branch only.
MergeOldKey_StoreRawOnly(key, old, st, keep) ==
    IF key \in DOMAIN st.new
    THEN [new    |-> DictDel(st.new, key),
          merged |-> IF is_raw(old[key])
                     THEN DictPut(st.merged, key, MergeBoth(old[key], st.new[key], keep))
                     ELSE st.merged]
    ELSE st

\* One pass of the first loop, for `key` of old_strings (lines 668-687), on the
\* pair st = [new, merged].
MergeOldKey(key, old, st, keep) ==
    IF key \in DOMAIN st.new
    THEN [new    |-> DictDel(st.new, key),
          merged |-> DictPut(st.merged, key, MergeBoth(old[key], st.new[key], keep))]
    ELSE st

\* A first loop that stops after the first key it finds in new_strings.
RECURSIVE MergeOldLoop_Break(_, _, _, _)
MergeOldLoop_Break(order, old, st, keep) ==
    IF order = <<>> THEN st
    ELSE IF Head(order) \in DOMAIN st.new
         THEN MergeOldKey(Head(order), old, st, keep)
         ELSE MergeOldLoop_Break(Tail(order), old, st, keep)

\* The first loop, iterating the keys of old_strings in `order`.
RECURSIVE MergeOldLoop(_, _, _, _)
MergeOldLoop(order, old, st, keep) ==
    IF order = <<>> THEN st
    ELSE MergeOldLoop(Tail(order), old, MergeOldKey(Head(order), old, st, keep), keep)

\* CopyNewKey that stores a fresh raw string for the key, without the comment.
CopyNewKey_Fresh(key, st) ==
    [st EXCEPT !.merged = DictPut(st.merged, key, LocalizedString(key, key, None))]

\* One pass of the second loop (lines 689-690).
CopyNewKey(key, st) ==
    [st EXCEPT !.merged = DictPut(st.merged, key, st.new[key])]

\* The second loop, iterating what is left of new_strings in `order`.
RECURSIVE CopyNewLoop(_, _)
CopyNewLoop(order, st) ==
    IF order = <<>> THEN st
    ELSE CopyNewLoop(Tail(order), CopyNewKey(Head(order), st))

\* merge_strings(old, new, keep), the first loop iterating old in order1 and the
\* second loop iterating the rest of new in order2: [new, merged] at the return.
MergeStrings(old, new, keep, order1, order2) ==
    CopyNewLoop(order2,
                MergeOldLoop(order1, old, [new |-> new, merged |-> EmptyDict], keep))


\* ------------------------------------------------- regular expressions

\* \w and \s of Python's re on the characters of the model, and '.', which is
\* every character but the line feed.
WordChars ==
    {"a", "b", "c", "d", "e", "f", "g", "h", "i", "j", "k", "l", "m", "n", "o", "p",
     "q", "r", "s", "t", "u", "v", "w", "x", "y", "z", "0", "1", "2", "3", "4", "5",
     "6", "7", "8", "9", "_"}

SpaceChars == {" ", "\t", "\n", "\r", "\f"}

InClass(ch, cls) ==
    CASE cls = "w"     -> ch \in WordChars
      [] cls = "s"     -> ch \in SpaceChars
      [] cls = "dot"   -> ch # "\n"
      [] cls = "space" -> ch = " "

\* The elements of a pattern: a literal text, or a greedy repetition of a class of
\* characters, min to max times (max -1: unbounded), capturing or not.
Lit(text) == [t |-> "lit", s |-> text, cls |-> "", min |-> 0, max |-> 0, cap |-> FALSE]
Rep(cls, min, max, cap) ==
    [t |-> "rep", s |-> <<>>, cls |-> cls, min |-> min, max |-> max, cap |-> cap]

WordStar == Rep("w", 0, -1, FALSE)        \* \w*
SpaceStar == Rep("s", 0, -1, FALSE)       \* \s*
OptSpace == Rep("space", 0, 1, FALSE)     \* ' ?'
Group == Rep("dot", 1, -1, TRUE)          \* (?P<name>.+)

QUOTE == "\""

\* '$': the end of the line, or the place before a line feed that ends it.
AtEnd(s, pos) == pos = Len(s) + 1 \/ (pos = Len(s) /\ s[pos] = "\n")

\* How many characters of s from pos on are of the class, up to max.
RECURSIVE RunLen(_, _, _, _)
RunLen(s, pos, cls, max) ==
    IF max = 0 \/ pos > Len(s) \/ ~InClass(s[pos], cls) THEN 0
    ELSE 1 + RunLen(s, pos + 1, cls, IF max > 0 THEN max - 1 ELSE max)

NoMatch == [ok |-> FALSE, groups |-> <<>>]

\* re.match of the elements i.. of pat, anchored at pos of s and ending in '$':
\* the first match of the backtracking search that tries, for each repetition, the
\* longest run first.  groups: the captured texts in the pattern's order.
RECURSIVE MatchAt(_, _, _, _)
RECURSIVE TryLen(_, _, _, _, _)
MatchAt(pat, i, s, pos) ==
    IF i > Len(pat)
    THEN IF AtEnd(s, pos) THEN [ok |-> TRUE, groups |-> <<>>] ELSE NoMatch
    ELSE LET e == pat[i] IN
         IF e.t = "lit"
         THEN IF /\ pos + Len(e.s) - 1 <= Len(s)
                 /\ SubSeq(s, pos, pos + Len(e.s) - 1) = e.s
              THEN MatchAt(pat, i + 1, s, pos + Len(e.s))
              ELSE NoMatch
         ELSE TryLen(pat, i, s, pos, RunLen(s, pos, e.cls, e.max))

TryLen(pat, i, s, pos, n) ==
    IF n < pat[i].min THEN NoMatch
    ELSE LET r == MatchAt(pat, i + 1, s, pos + n) IN
         IF r.ok
         THEN IF pat[i].cap
              THEN [ok |-> TRUE, groups |-> <<SubSeq(s, pos, pos + n - 1)>> \o r.groups]
              ELSE r
         ELSE TryLen(pat, i, s, pos, n - 1)

Match(pat, s) == MatchAt(pat, 1, s, 1)

\* The expressions of LocalizedString.
COMMENT_EXPR ==
    <<WordStar, Lit(<<"/", "*", " ">>), Group, Lit(<<" ", "*", "/">>), WordStar>>

COMMENT_MULTILINE_START == <<WordStar, Lit(<<"/", "*", " ">>), Group, WordStar>>

COMMENT_MULTILINE_LINE == <<Group>>

COMMENT_MULTILINE_END == <<Group, Lit(<<"*", "/">>), SpaceStar>>

LOCALIZED_STRING_EXPR ==
    <<Lit(<<QUOTE>>), Group, Lit(<<QUOTE>>), OptSpace, Lit(<<"=">>), OptSpace,
      Lit(<<QUOTE>>), Group, Lit(<<QUOTE>>), Lit(<<";">>)>>

LOCALIZED_STRING_MULTILINE_START_EXPR ==
    <<Lit(<<QUOTE>>), Group, Lit(<<QUOTE>>), OptSpace, Lit(<<"=">>), OptSpace,
      Lit(<<QUOTE>>), Group>>

LOCALIZED_STRING_MULTILINE_LINE_EXPR == <<Group>>

LOCALIZED_STRING_MULTILINE_END_EXPR ==
    <<Group, Lit(<<QUOTE>>), OptSpace, Lit(<<";">>), OptSpace>>

LOCALIZED_STRING_TRAILING_COMMENT_EXPR ==
    <<Lit(<<QUOTE>>), Group, Lit(<<QUOTE>>), OptSpace, Lit(<<"=">>), OptSpace,
      Lit(<<QUOTE>>), Group, Lit(<<QUOTE>>), OptSpace, Lit(<<";">>), OptSpace,
      Lit(<<"/", "*", " ">>), Group, Lit(<<" ", "*", "/">>)>>

\* The class methods: the groups of the match, or None for each of them.
GroupsOrNone(pat, s, n) ==
    LET r == Match(pat, s) IN IF r.ok THEN r.groups ELSE [i \in 1..n |-> None]

parse_multiline_start(l) == GroupsOrNone(LOCALIZED_STRING_MULTILINE_START_EXPR, l, 2)
parse_multiline_line(l) == GroupsOrNone(LOCALIZED_STRING_MULTILINE_LINE_EXPR, l, 1)[1]
parse_multiline_end(l) == GroupsOrNone(LOCALIZED_STRING_MULTILINE_END_EXPR, l, 1)[1]
parse_trailing_comment(l) == GroupsOrNone(LOCALIZED_STRING_TRAILING_COMMENT_EXPR, l, 3)
parse_multiline_comment_start(l) == GroupsOrNone(COMMENT_MULTILINE_START, l, 1)[1]
parse_multiline_comment_line(l) == GroupsOrNone(COMMENT_MULTILINE_LINE, l, 1)[1]
parse_multiline_comment_end(l) == GroupsOrNone(COMMENT_MULTILINE_END, l, 1)[1]
parse_comment(l) == GroupsOrNone(COMMENT_EXPR, l, 1)[1]
parse_localized_pair(l) == GroupsOrNone(LOCALIZED_STRING_EXPR, l, 2)

\* ------------------------------------------- LocalizedStringLineParser

ParseStates == {"COMMENT", "STRING", "TRAILING_COMMENT", "STRING_MULTILINE",
                "COMMENT_MULTILINE"}

\* An attribute __init__ does not create.
Unset == <<"Unset">>

\* __init__
NewParser ==
    [parse_state |-> "COMMENT", key |-> None, value |-> None, comment |-> None,
     comment_partial |-> Unset, value_partial |-> Unset]

\* What parse_line returns: None, as the empty sequence, or a LocalizedString, as
\* the sequence of that one string.
Nothing == <<>>
Just(string) == <<string>>

\* What a call of parse_line leaves: the parser and the value returned.
Outcome(p, ret) == [p |-> p, ret |-> ret]

\* build_localizedString that leaves the comment in the parser.
build_localizedString_KeepComment(p) ==
    Outcome([p EXCEPT !.key = None, !.value = None],
            Just(LocalizedString(p.key, p.value, p.comment)))

\* build_localizedString
build_localizedString(p) ==
    Outcome([p EXCEPT !.key = None, !.value = None, !.comment = None],
            Just(LocalizedString(p.key, p.value, p.comment)))

NL == <<"\n">>

\* ParseComment without the test for a line with a trailing comment, as in the
\* parser of localized_string.py.
ParseComment_NoTrailing(p, l) ==
    LET p2 == [p EXCEPT !.comment = parse_comment(l)] IN
    IF p2.comment # None
    THEN Outcome([p2 EXCEPT !.parse_state = "STRING"], Nothing)
    ELSE LET p3 == [p2 EXCEPT !.comment_partial = parse_multiline_comment_start(l)]
         IN IF p3.comment_partial # None
            THEN Outcome([p3 EXCEPT !.parse_state = "COMMENT_MULTILINE"], Nothing)
            ELSE Outcome(p3, Nothing)

\* ParseComment that also takes a key/value line without any comment.
ParseComment_BarePair(p, l) ==
    LET t == parse_trailing_comment(l)
        kv == parse_localized_pair(l)
        p1 == [p EXCEPT !.key = t[1], !.value = t[2], !.comment = t[3]]
    IN IF p1.key # None /\ p1.value # None /\ p1.comment # None
       THEN build_localizedString(p1)
       ELSE IF kv # <<None, None>>
       THEN build_localizedString([p1 EXCEPT !.key = kv[1], !.value = kv[2]])
       ELSE LET p2 == [p1 EXCEPT !.comment = parse_comment(l)] IN
            IF p2.comment # None
            THEN Outcome([p2 EXCEPT !.parse_state = "STRING"], Nothing)
            ELSE LET p3 == [p2 EXCEPT !.comment_partial =
                                          parse_multiline_comment_start(l)]
                 IN IF p3.comment_partial # None
                    THEN Outcome([p3 EXCEPT !.parse_state = "COMMENT_MULTILINE"], Nothing)
                    ELSE Outcome(p3, Nothing)

\* parse_line in state COMMENT (lines 156-168).
ParseComment(p, l) ==
    LET t == parse_trailing_comment(l)
        p1 == [p EXCEPT !.key = t[1], !.value = t[2], !.comment = t[3]]
    IN IF p1.key # None /\ p1.value # None /\ p1.comment # None
       THEN build_localizedString(p1)
       ELSE LET p2 == [p1 EXCEPT !.comment = parse_comment(l)] IN
            IF p2.comment # None
            THEN Outcome([p2 EXCEPT !.parse_state = "STRING"], Nothing)
            ELSE LET p3 == [p2 EXCEPT !.comment_partial =
                                          parse_multiline_comment_start(l)]
                 IN IF p3.comment_partial # None
                    THEN Outcome([p3 EXCEPT !.parse_state = "COMMENT_MULTILINE"], Nothing)
                    ELSE Outcome(p3, Nothing)

\* ParseCommentMultiline that awaits a comment again after the last line of the
\* comment.
ParseCommentMultiline_Reset(p, l) ==
    LET comment_end == parse_multiline_comment_end(l)
        comment_line == parse_multiline_comment_line(l)
    IN IF comment_end # None
       THEN Outcome([p EXCEPT !.comment = p.comment_partial \o NL \o comment_end,
                              !.comment_partial = None,
                              !.parse_state = "COMMENT"], Nothing)
       ELSE IF comment_line # None
            THEN Outcome([p EXCEPT !.comment_partial = @ \o NL \o comment_line], Nothing)
            ELSE Outcome(p, Nothing)

\* ParseCommentMultiline that stays in its state after the last line of the comment.
ParseCommentMultiline_StayOpen(p, l) ==
    LET comment_end == parse_multiline_comment_end(l)
        comment_line == parse_multiline_comment_line(l)
    IN IF comment_end # None
       THEN Outcome([p EXCEPT !.comment = p.comment_partial \o NL \o comment_end,
                              !.comment_partial = None], Nothing)
       ELSE IF comment_line # None
            THEN Outcome([p EXCEPT !.comment_partial = @ \o NL \o comment_line], Nothing)
            ELSE Outcome(p, Nothing)

\* ParseCommentMultiline that keeps no intermediate line.
ParseCommentMultiline_SkipLines(p, l) ==
    LET comment_end == parse_multiline_comment_end(l)
    IN IF comment_end # None
       THEN Outcome([p EXCEPT !.comment = p.comment_partial \o NL \o comment_end,
                              !.comment_partial = None,
                              !.parse_state = "STRING"], Nothing)
       ELSE Outcome(p, Nothing)

\* parse_line in state COMMENT_MULTILINE (lines 170-181).
ParseCommentMultiline(p, l) ==
    LET comment_end == parse_multiline_comment_end(l)
        comment_line == parse_multiline_comment_line(l)
    IN IF comment_end # None
       THEN Outcome([p EXCEPT !.comment = p.comment_partial \o NL \o comment_end,
                              !.comment_partial = None,
                              !.parse_state = "STRING"], Nothing)
       ELSE IF comment_line # None
            THEN Outcome([p EXCEPT !.comment_partial = @ \o NL \o comment_line], Nothing)
            ELSE Outcome(p, Nothing)

\* parse_line in state TRAILING_COMMENT (lines 183-188).
ParseTrailingComment(p, l) ==
    LET p1 == [p EXCEPT !.comment = parse_comment(l)] IN
    IF p1.comment # None
    THEN build_localizedString([p1 EXCEPT !.parse_state = "COMMENT"])
    ELSE Outcome(p1, Nothing)

\* ParseString that waits for a trailing comment after a key/value line: it
\* keeps the pair and goes to state TRAILING_COMMENT.
ParseString_ToTrailing(p, l) ==
    LET kv == parse_localized_pair(l)
        p1 == [p EXCEPT !.key = kv[1], !.value = kv[2]]
    IN IF p1.key # None /\ p1.value # None
       THEN Outcome([p1 EXCEPT !.parse_state = "TRAILING_COMMENT"], Nothing)
       ELSE LET ms == parse_multiline_start(l)
                p2 == [p1 EXCEPT !.key = ms[1], !.value_partial = ms[2]]
            IN IF p2.key # None /\ p2.value_partial # None
               THEN Outcome([p2 EXCEPT !.parse_state = "STRING_MULTILINE",
                                       !.value = None], Nothing)
               ELSE Outcome(p2, Nothing)

\* ParseString that unpacks a failed match into the comment too, as the first
\* statement of state COMMENT does.
ParseString_DropComment(p, l) ==
    LET kv == parse_localized_pair(l)
        p1 == [p EXCEPT !.key = kv[1], !.value = kv[2]]
    IN IF p1.key # None /\ p1.value # None
       THEN build_localizedString([p1 EXCEPT !.parse_state = "COMMENT"])
       ELSE LET ms == parse_multiline_start(l)
                p2 == [p1 EXCEPT !.key = ms[1], !.value_partial = ms[2],
                                 !.comment = IF ms[1] = None THEN None ELSE @]
            IN IF p2.key # None /\ p2.value_partial # None
               THEN Outcome([p2 EXCEPT !.parse_state = "STRING_MULTILINE",
                                       !.value = None], Nothing)
               ELSE Outcome(p2, Nothing)

\* parse_line in state STRING (lines 190-204).
ParseString(p, l) ==
    LET kv == parse_localized_pair(l)
        p1 == [p EXCEPT !.key = kv[1], !.value = kv[2]]
    IN IF p1.key # None /\ p1.value # None
       THEN build_localizedString([p1 EXCEPT !.parse_state = "COMMENT"])
       ELSE LET ms == parse_multiline_start(l)
                p2 == [p1 EXCEPT !.key = ms[1], !.value_partial = ms[2]]
            IN IF p2.key # None /\ p2.value_partial # None
               THEN Outcome([p2 EXCEPT !.parse_state = "STRING_MULTILINE",
                                       !.value = None], Nothing)
               ELSE Outcome(p2, Nothing)

\* ParseStringMultiline that keeps no intermediate line.
ParseStringMultiline_SkipLines(p, l) ==
    LET value_end == parse_multiline_end(l)
    IN IF value_end # None
       THEN build_localizedString(
                [p EXCEPT !.value = p.value_partial \o NL \o value_end,
                          !.value_partial = None,
                          !.parse_state = "COMMENT"])
       ELSE Outcome(p, Nothing)

\* parse_line in state STRING_MULTILINE (lines 205-215).
ParseStringMultiline(p, l) ==
    LET value_end == parse_multiline_end(l)
        value_part == parse_multiline_line(l)
    IN IF value_end # None
       THEN build_localizedString(
                [p EXCEPT !.value = p.value_partial \o NL \o value_end,
                          !.value_partial = None,
                          !.parse_state = "COMMENT"])
       ELSE IF value_part # None
            THEN Outcome([p EXCEPT !.value_partial = @ \o NL \o value_part], Nothing)
            ELSE Outcome(p, Nothing)

\* A call of parse_line raises: in a multi-line state a line with text is to be
\* joined to a partial comment or value that is None (TypeError) or is no
\* attribute of the parser yet (AttributeError).
Raises(p, l) ==
    \/ /\ p.parse_state = "COMMENT_MULTILINE"
       /\ p.comment_partial \in {None, Unset}
       /\ parse_multiline_comment_end(l) # None \/ parse_multiline_comment_line(l) # None
    \/ /\ p.parse_state = "STRING_MULTILINE"
       /\ p.value_partial \in {None, Unset}
       /\ parse_multiline_end(l) # None \/ parse_multiline_line(l) # None

\* parse_line
parse_line(p, l) ==
    CASE p.parse_state = "COMMENT"           -> ParseComment(p, l)
      [] p.parse_state = "COMMENT_MULTILINE" -> ParseCommentMultiline(p, l)
      [] p.parse_state = "TRAILING_COMMENT"  -> ParseTrailingComment(p, l)
      [] p.parse_state = "STRING"            -> ParseString(p, l)
      [] p.parse_state = "STRING_MULTILINE"  -> ParseStringMultiline(p, l)

\* ------------------------------------------------------------ the lines

\* The texts the lines are built of.
KeyTexts == {<<"a">>, <<"b">>}
ValueTexts == {<<"x">>, <<"a">>}
LineComments == {<<"c">>, <<"d", " ", "e">>}

CommentLine(c) == <<"/", "*", " ">> \o c \o <<" ", "*", "/">>

CommentLineTight(c) == <<"/", "*", " ">> \o c \o <<"*", "/">>

PairLine(k, v) ==
    <<QUOTE>> \o k \o <<QUOTE, " ", "=", " ", QUOTE>> \o v \o <<QUOTE, ";">>

PairLineTight(k, v) == <<QUOTE>> \o k \o <<QUOTE, "=", QUOTE>> \o v \o <<QUOTE, ";">>

ValueStartLine(k, v) == <<QUOTE>> \o k \o <<QUOTE, " ", "=", " ", QUOTE>> \o v

ValueStartLineTight(k, v) == <<QUOTE>> \o k \o <<QUOTE, "=", QUOTE>> \o v

ValueEndLine(v) == v \o <<QUOTE, ";">>

CommentStartLine(c) == <<"/", "*", " ">> \o c

TrailingLine(k, v, c) == PairLine(k, v) \o <<" ">> \o CommentLine(c)

TrailingLineTight(k, v, c) == PairLineTight(k, v) \o CommentLine(c)

CommentEndLine(c) == c \o <<" ", "*", "/">>

\* Blank lines and stray text.
BlankLines == {<<>>, <<" ", " ">>, NL}
StrayLines == {<<"w">>, <<"w", ";">>}

CommentLines ==
    {CommentLine(c) : c \in LineComments} \cup {CommentLineTight(<<"c">>)}
PairLines ==
    {PairLine(k, v) : k \in KeyTexts, v \in ValueTexts}
        \cup {PairLineTight(<<"b">>, <<"x">>) \o NL}
ValueStartLines ==
    {ValueStartLine(<<"a">>, <<"x">>), ValueStartLineTight(<<"b">>, <<"a">>) \o NL}
ValueEndLines == {ValueEndLine(<<"y">>)}
CommentStartLines == {CommentStartLine(<<"c">>)}
CommentEndLines == {CommentEndLine(<<"d">>)}
TrailingLines ==
    {TrailingLine(<<"a">>, <<"x">>, <<"c">>),
     TrailingLineTight(<<"b">>, <<"a">>, <<"d", " ", "e">>) \o NL}

Lines ==
    BlankLines \cup StrayLines \cup CommentLines \cup PairLines \cup ValueStartLines
        \cup ValueEndLines \cup CommentStartLines \cup CommentEndLines
        \cup TrailingLines

\* ---------------------------------------------------------------- files

\* The paths merge_files works on: the new table file, the old table file, and the
\* file of the new file's name in the destination folder.
Paths == {"new", "old", "copy"}

\* No file at a path.
Absent == <<"Absent">>

\* Collect that keeps the first string of a key.
Collect_KeepFirst(d, ret) ==
    IF ret = Nothing \/ ret[1].key \in DOMAIN d THEN d ELSE DictPut(d, ret[1].key, ret[1])

\* The loop body of parse_file: a string returned by parse_line is stored under
\* its key.
Collect(d, ret) ==
    IF ret = Nothing THEN d ELSE DictPut(d, ret[1].key, ret[1])

\* x or ''
OrEmpty(x) == IF x = None THEN <<>> ELSE x

\* __str__ without the semicolon that ends the key/value line.
Render_NoSemicolon(s) ==
    (IF s.comment # None /\ s.comment # <<>>
     THEN <<"/", "*", " ">> \o s.comment \o <<" ", "*", "/">> \o NL
     ELSE <<>>)
    \o <<QUOTE>> \o OrEmpty(s.key) \o <<QUOTE, " ", "=", " ", QUOTE>> \o OrEmpty(s.value)
    \o <<QUOTE>> \o NL

\* LocalizedString.__str__ (lines 581-587)
Render(s) ==
    (IF s.comment # None /\ s.comment # <<>>
     THEN <<"/", "*", " ">> \o s.comment \o <<" ", "*", "/">> \o NL
     ELSE <<>>)
    \o <<QUOTE>> \o OrEmpty(s.key) \o <<QUOTE, " ", "=", " ", QUOTE>> \o OrEmpty(s.value)
    \o <<QUOTE, ";">> \o NL

\* The index of the first line feed of a text from index i on, or the length of
\* the text if there is none.
RECURSIVE LineEnd(_, _)
LineEnd(t, i) ==
    IF i >= Len(t) THEN Len(t)
    ELSE IF t[i] = "\n" THEN i ELSE LineEnd(t, i + 1)

\* The lines of a text as the iteration over an open file gives them, each with
\* its line feed.
RECURSIVE SplitLines(_)
SplitLines(t) ==
    IF t = <<>> THEN <<>>
    ELSE LET n == LineEnd(t, 1)
         IN <<SubSeq(t, 1, n)>> \o SplitLines(SubSeq(t, n + 1, Len(t)))

\* The characters of the texts, in the order of their code points.
CodePoints ==
    <<"\n", " ", QUOTE, "*", "/", ";", "=", "a", "b", "c", "d", "e", "w", "x", "y">>

Ord(c) == CHOOSE i \in 1..Len(CodePoints) : CodePoints[i] = c

\* k1 < k2 for two texts: the order keys.sort() sorts by.
RECURSIVE KeyLess(_, _)
KeyLess(k1, k2) ==
    IF k2 = <<>> THEN FALSE
    ELSE IF k1 = <<>> THEN TRUE
    ELSE IF k1[1] = k2[1] THEN KeyLess(Tail(k1), Tail(k2))
    ELSE Ord(k1[1]) < Ord(k2[1])

\* keys.sort(): the sorted list of a list of keys.
RECURSIVE Insert(_, _)
Insert(k, sorted) ==
    IF sorted = <<>> THEN <<k>>
    ELSE IF KeyLess(k, sorted[1]) THEN <<k>> \o sorted
    ELSE <<sorted[1]>> \o Insert(k, Tail(sorted))

RECURSIVE SortKeys(_)
SortKeys(keys) ==
    IF keys = <<>> THEN <<>> ELSE Insert(keys[1], SortKeys(Tail(keys)))

\* sort_strings without keys.sort().
sort_strings_Unsorted(d, keys) == [i \in 1..Len(keys) |-> d[keys[i]]]

\* sort_strings (lines 748-759); keys is strings.keys(), the keys in the order the
\* dictionary gives them.
sort_strings(d, keys) == [i \in 1..Len(keys) |-> d[SortKeys(keys)[i]]]

\* The text write_file writes for a list of strings (lines 733-734): each string
\* rendered, and a line feed.
RECURSIVE WriteText(_)
WriteText(values) ==
    IF values = <<>> THEN <<>>
    ELSE Render(values[1]) \o NL \o WriteText(Tail(values))

\* The loop of parse_file over the lines of a file (lines 712-718), from parser p
\* and dictionary d on; raised tells that a call of parse_line raised.
RECURSIVE ParseLines(_, _, _)
ParseLines(lines, p, d) ==
    IF lines = <<>> THEN [strings |-> d, p |-> p, raised |-> FALSE]
    ELSE IF Raises(p, lines[1]) THEN [strings |-> d, p |-> p, raised |-> TRUE]
    ELSE LET o == parse_line(p, lines[1])
         IN ParseLines(Tail(lines), o.p, Collect(d, o.ret))

\* The lines of a text fed one after the other to a parser and a dictionary just
\* created (lines 704-705, 712-718).
ParseFile(text) == ParseLines(SplitLines(text), NewParser, EmptyDict)

\* How the bytes of a file encode its text: bom tells that the file starts with
\* the byte order mark of UTF-16; good tells how much of the file decodes ("all";
\* "head": all lines but the last; "none"), as UTF-16 with the mark and as UTF-8
\* without.
Codings == [bom : BOOLEAN, good : {"all", "head", "none"}]

Utf16 == [bom |-> TRUE, good |-> "all"]

Utf8 == [bom |-> FALSE, good |-> "all"]

\* The coding of a file write_file has written (line 732): UTF-16, the mark
\* written with the first string; no byte when there is no string.
CodingOf(text) == IF text = <<>> THEN Utf8 ELSE Utf16

\* The lines a reader yields before the decoding fails, or all of them.
Leading(lines, good) ==
    CASE good = "all" -> lines
      [] good = "head" -> SubSeq(lines, 1, Len(lines) - 1)
      [] OTHER -> <<>>

\* The lines read with encoding utf16 (lines 707, 712): a file with bytes and
\* without the mark fails before its first line.
DecodeUtf16(text, cod) ==
    IF cod.bom
    THEN [lines |-> Leading(SplitLines(text), cod.good), ok |-> cod.good = "all"]
    ELSE [lines |-> <<>>, ok |-> text = <<>> /\ cod.good = "all"]

\* DecodeUtf8 that skips the bytes it cannot decode.
DecodeUtf8_Lenient(text, cod) == [lines |-> SplitLines(text), ok |-> TRUE]

\* The lines read with encoding utf8 (lines 719-721): the byte order mark of
\* UTF-16 is no UTF-8, the file fails before its first line.
DecodeUtf8(text, cod) ==
    IF cod.bom
    THEN [lines |-> <<>>, ok |-> FALSE]
    ELSE [lines |-> Leading(SplitLines(text), cod.good), ok |-> cod.good = "all"]

\* The rest of parse_file after the utf16 pass has left the parser and the
\* dictionary as in r1 (lines 719-726).
Fallback(text, cod, r1) ==
    IF r1.raised THEN [strings |-> r1.strings, raised |-> TRUE]
    ELSE IF DecodeUtf16(text, cod).ok THEN [strings |-> r1.strings, raised |-> FALSE]
    ELSE [strings |-> ParseLines(DecodeUtf8(text, cod).lines, r1.p, r1.strings).strings,
          raised |-> \/ ParseLines(DecodeUtf8(text, cod).lines, r1.p, r1.strings).raised
                     \/ ~DecodeUtf8(text, cod).ok]

\* parse_file (lines 695-726): the parser and the dictionary are created once; the
\* lines read as utf16 are parsed, and on a UnicodeError the lines read as utf8,
\* with the same parser and dictionary.  raised tells that parse_file raises: a
\* call of parse_line raised, or the file decodes as neither.
parse_file(text, cod) ==
    Fallback(text, cod, ParseLines(DecodeUtf16(text, cod).lines, NewParser, EmptyDict))

\* The tables given to write_file: keys of which one is a prefix of another,
\* values and comments of one line and of two lines, strings without comment.
TableKeys == {<<"a">>, <<"a", "b">>, <<"b">>}
TableValues == {<<"x">>, <<"x", "\n", "y">>}
TableComments == {None, <<"c">>, <<"c", "\n", "d">>}

\* The texts of the new files that are found in every coding: a file with
\* key/value lines without blanks around the equals sign and with a comment of
\* two lines, and a file whose first key/value line has no comment.
CodedTexts ==
    {CommentLine(<<"c">>) \o NL \o PairLineTight(<<"a">>, <<"a">>) \o NL
        \o CommentStartLine(<<"c">>) \o NL \o CommentEndLine(<<"d">>) \o NL
        \o PairLineTight(<<"b">>, <<"b">>) \o NL,
     PairLine(<<"b">>, <<"y">>) \o NL \o CommentLine(<<"c">>) \o NL
        \o PairLine(<<"a">>, <<"x">>) \o NL}

\* The texts of the table files merge_files finds: the files write_file has
\* written for the tables over Keys, and for the new file also the files of
\* CodedTexts.
WrittenTexts ==
    UNION {{WriteText(sort_strings(t, o)) : o \in Orders(DOMAIN t)} : t \in Tables}

OldTexts == WrittenTexts

NewTexts == WrittenTexts \cup CodedTexts

WrittenTables ==
    UNION {{t \in [ks -> {LocalizedString(k, v, c) :
                             k \in ks, v \in TableValues, c \in TableComments}] :
               \A k \in ks : t[k].key = k} : ks \in SUBSET TableKeys}

\* ----------------------------------------------------------------- runs

\* The names of the table files of a run; an interface file has the name of its
\* table (lines 836-838).
TableNames == {"Localizable", "InfoPlist"}

\* The table files the external tool writes into the temporary folder: a text
\* in a coding.
RunFiles == [text : CodedTexts, cod : Codings]

\* merge_files of a table file of the temporary folder returns: parse_file of it
\* (line 910) does not raise.
Readable(f) == ~parse_file(f.text, f.cod).raised

\* The temporary folder with the file f of name n added.
WithFile(files, n, f) == [k \in DOMAIN files \cup {n} |-> IF k = n THEN f ELSE files[k]]

\* os.remove of the file of name n (lines 848, 894).
WithoutFile(files, n) == [k \in DOMAIN files \ {n} |-> files[k]]

\* ---------------------------------------------------------- find_sources

\* The directories os.walk finds under the root: the root, a directory in it and
\* a directory in that one.
Join(dir_path, name) == dir_path \o <<"/">> \o name

Dirs == {<<"r">>, Join(<<"r">>, <<"v">>), Join(Join(<<"r">>, <<"v">>), <<"s">>)}

\* The names of the files of a directory: with an extension, without a dot, and
\* with a dot and a name that holds an ignore pattern.
FileNames == {<<"t", ".", "m">>, <<"t", ".", "h">>, <<"m">>, <<"v", ".", "m">>}

\* The extensions when None is given (line 802).
DefaultExtensions == {<<"c">>, <<"m">>, <<"m", "m">>}

\* sub in text, of Python strings.
Occurs(sub, text) ==
    \E i \in 1..(Len(text) - Len(sub) + 1) : SubSeq(text, i, i + Len(sub) - 1) = sub

\* file_name.rpartition('.')[2]: the text after the last dot; the whole name when
\* it holds no dot.
RECURSIVE Extension(_)
Extension(file_name) ==
    IF file_name = <<>> THEN <<>>
    ELSE IF \E i \in 1..Len(file_name) : file_name[i] = "."
         THEN IF Head(file_name) = "." /\ \A i \in 2..Len(file_name) : file_name[i] # "."
              THEN Tail(file_name)
              ELSE Extension(Tail(file_name))
         ELSE file_name

\* ignorePath (lines 805-810): one of the patterns occurs in the path of the
\* directory.
IgnorePath(dir_path, patterns) ==
    /\ patterns # Nothing
    /\ \E ignore_pattern \in patterns[1] : Occurs(ignore_pattern, dir_path)

\* find_sources (lines 800-819): the paths of the files of the directories not
\* ignored whose extension is among the extensions; the list as a set.
find_sources(t, exts, patterns) ==
    UNION {{Join(d, f) : f \in {g \in t[d] : Extension(g) \in
                                                (IF exts = Nothing THEN DefaultExtensions
                                                                   ELSE exts[1])}} :
              d \in {e \in DOMAIN t : ~IgnorePath(e, patterns)}}

\* ---------------------------------------------------------------- state

\* The translated values of the first old table that a merge of old with new must
\* still keep: those of prev whose key is in both tables.
StickyOf(old, new, prev) ==
    [k \in Keys |-> IF k \in DOMAIN old /\ k \in DOMAIN new THEN prev[k] ELSE None]

InitMerge ==
    /\ old_strings \in Tables
    /\ new_strings \in Tables
    /\ keep_comment \in BOOLEAN
    /\ merged_strings = EmptyDict
    /\ mpc = "call"
    /\ new_in = new_strings
    /\ sticky = StickyOf(old_strings, new_strings,
                         [k \in Keys |-> IF k \in DOMAIN old_strings /\ ~is_raw(old_strings[k])
                                         THEN old_strings[k].value ELSE None])
    /\ runs = 1

\* No merge is called.
NoMerge ==
    /\ old_strings = EmptyDict
    /\ new_strings = EmptyDict
    /\ keep_comment = FALSE
    /\ merged_strings = EmptyDict
    /\ mpc = "idle"
    /\ new_in = EmptyDict
    /\ sticky = [k \in Keys |-> None]
    /\ runs = 0

\* A parser as __init__ leaves it; no line fed.
InitParser ==
    /\ parser = NewParser
    /\ returned = Nothing
    /\ line = None
    /\ fed = 0
    /\ waited = 0
    /\ raised = FALSE
    /\ localized_strings = EmptyDict
    /\ emitted = <<>>

\* No table is written or read back.
NoTable ==
    /\ strings = EmptyDict
    /\ given = EmptyDict
    /\ tpc = "idle"

\* No file is touched.
NoFiles ==
    /\ disk = [p \in Paths |-> Absent]
    /\ coding = [p \in Paths |-> Utf8]
    /\ before = disk
    /\ output = <<>>
    /\ fpc = "idle"

\* merge_strings runs from its call to its return, each dictionary iterated in
\* one of its orders.
Merge ==
    /\ mpc = "call"
    /\ \E order1 \in Orders(DOMAIN old_strings) :
         \E order2 \in Orders(DOMAIN new_strings \ DOMAIN old_strings) :
            LET r == MergeStrings(old_strings, new_strings, keep_comment, order1, order2)
            IN /\ new_strings' = r.new
               /\ merged_strings' = r.merged
    /\ mpc' = "return"
    /\ UNCHANGED <<old_strings, keep_comment, new_in, sticky, runs>>
    /\ UNCHANGED <<parserVars, tableVars, fileVars, runVars, findVars>>

\* The next run: the merged table is the old table of a merge with a new table.
NextRun ==
    /\ mpc = "return"
    /\ runs < MaxRuns
    /\ \E t \in Tables, f \in BOOLEAN :
          /\ old_strings' = merged_strings
          /\ new_strings' = t
          /\ new_in' = t
          /\ keep_comment' = f
          /\ sticky' = StickyOf(merged_strings, t, sticky)
    /\ merged_strings' = EmptyDict
    /\ mpc' = "call"
    /\ runs' = runs + 1
    /\ UNCHANGED <<parserVars, tableVars, fileVars, runVars, findVars>>

\* The count of the calls that found and left the parser in state STRING, after a
\* call that took it from p to q.
Waited(p, q, n) ==
    IF q.parse_state # "STRING" THEN n
    ELSE IF p.parse_state = "STRING" THEN n + 1 ELSE 0

\* One call of parse_line, with any line.
ParseLine ==
    /\ fed < MaxLines
    /\ ~raised
    /\ \E l \in Lines :
          /\ line' = l
          /\ IF Raises(parser, l)
             THEN /\ raised' = TRUE
                  /\ returned' = Nothing
                  /\ UNCHANGED <<parser, waited, localized_strings, emitted>>
             ELSE LET o == parse_line(parser, l) IN
                  /\ parser' = o.p
                  /\ returned' = o.ret
                  /\ waited' = Waited(parser, o.p, waited)
                  /\ localized_strings' = Collect(localized_strings, o.ret)
                  /\ emitted' = emitted \o o.ret
                  /\ raised' = FALSE
    /\ fed' = fed + 1
    /\ UNCHANGED <<mergeVars, tableVars, fileVars, runVars, findVars>>

\* A table is to be written, read back and written again.
InitTable ==
    /\ strings \in WrittenTables
    /\ given = strings
    /\ tpc = "table"

\* write_file (lines 729-734) of the table to the old path.
WriteTable ==
    /\ tpc \in {"table", "read"}
    /\ \E keys \in Orders(DOMAIN strings) :
          /\ output' = sort_strings(strings, keys)
          /\ disk' = [disk EXCEPT !["old"] = WriteText(sort_strings(strings, keys))]
          /\ coding' = [coding EXCEPT
                           !["old"] = CodingOf(WriteText(sort_strings(strings, keys)))]
    /\ tpc' = IF tpc = "table" THEN "written" ELSE "rewritten"
    /\ UNCHANGED <<strings, given, fpc, before>>
    /\ UNCHANGED <<mergeVars, parserVars, runVars, findVars>>

\* parse_file (lines 695-726) of the file written.
ReadTable ==
    /\ tpc = "written"
    /\ ~parse_file(disk["old"], coding["old"]).raised
    /\ strings' = parse_file(disk["old"], coding["old"]).strings
    /\ tpc' = "read"
    /\ UNCHANGED <<given, fileVars, runVars, findVars>>
    /\ UNCHANGED <<mergeVars, parserVars, runVars, findVars>>

\* merge_files is called (lines 898-909): the new file exists, the old file may,
\* the flag is given.
InitFiles ==
    /\ disk \in {[p \in Paths |-> CASE p = "new" -> n [] p = "old" -> o [] OTHER -> Absent] :
                    n \in NewTexts, o \in OldTexts \cup {Absent}}
    /\ coding \in [Paths -> Codings]
    /\ coding["copy"] = Utf8
    /\ coding["old"] = IF disk["old"] = Absent THEN Utf8 ELSE CodingOf(disk["old"])
    /\ \/ coding["new"] = CodingOf(disk["new"])
       \/ disk["new"] \in CodedTexts
    /\ before = disk
    /\ output = <<>>
    /\ fpc = "call"
    /\ keep_comment \in BOOLEAN
    /\ old_strings = EmptyDict
    /\ new_strings = EmptyDict
    /\ merged_strings = EmptyDict
    /\ mpc = "idle"
    /\ new_in = EmptyDict
    /\ sticky = [k \in Keys |-> None]
    /\ runs = 0

\* new_strings = parse_file(new_file_path) (line 910)
ParseNew ==
    /\ fpc = "call"
    /\ ~parse_file(disk["new"], coding["new"]).raised
    /\ new_strings' = parse_file(disk["new"], coding["new"]).strings
    /\ fpc' = "new_parsed"
    /\ UNCHANGED <<old_strings, keep_comment, merged_strings, mpc, new_in, sticky, runs>>
    /\ UNCHANGED <<disk, coding, before, output>>
    /\ UNCHANGED <<parserVars, tableVars, runVars, findVars>>

\* old_strings = parse_file(old_file_path), the old file existing (lines 912-914);
\* merge_strings is then called with both dictionaries and the flag.
ParseOld ==
    /\ fpc = "new_parsed"
    /\ disk["old"] # Absent
    /\ ~parse_file(disk["old"], coding["old"]).raised
    /\ old_strings' = parse_file(disk["old"], coding["old"]).strings
    /\ new_in' = new_strings
    /\ mpc' = "call"
    /\ runs' = 1
    /\ fpc' = "old_parsed"
    /\ UNCHANGED <<new_strings, keep_comment, merged_strings, sticky>>
    /\ UNCHANGED <<disk, coding, before, output>>
    /\ UNCHANGED <<parserVars, tableVars, runVars, findVars>>

\* parse_file raises (the file cannot be opened or decoded): merge_files ends with
\* the exception.
ParseFails ==
    /\ \/ fpc = "call"
       \/ fpc = "new_parsed" /\ disk["old"] # Absent
    /\ fpc' = "failed"
    /\ UNCHANGED <<disk, coding, before, output>>
    /\ UNCHANGED <<mergeVars, parserVars, tableVars, runVars, findVars>>

\* OpenOld that opens the old file as soon as it is known to exist.
OpenOld_Early ==
    /\ fpc = "new_parsed"
    /\ disk["old"] # Absent
    /\ disk["old"] # <<>>
    /\ disk' = [disk EXCEPT !["old"] = <<>>]
    /\ coding' = [coding EXCEPT !["old"] = Utf8]
    /\ UNCHANGED <<before, output, fpc>>
    /\ UNCHANGED <<mergeVars, parserVars, tableVars, runVars, findVars>>

\* write_file opens the old file for writing (lines 915, 732): the file is empty.
OpenOld ==
    /\ fpc = "old_parsed"
    /\ mpc = "return"
    /\ disk' = [disk EXCEPT !["old"] = <<>>]
    /\ coding' = [coding EXCEPT !["old"] = Utf8]
    /\ fpc' = "open"
    /\ UNCHANGED <<before, output>>
    /\ UNCHANGED <<mergeVars, parserVars, tableVars, runVars, findVars>>

\* write_file writes the merged strings, sorted (lines 733-734).
WriteOld ==
    /\ fpc = "open"
    /\ \E keys \in Orders(DOMAIN merged_strings) :
          /\ output' = sort_strings(merged_strings, keys)
          /\ disk' = [disk EXCEPT !["old"] = WriteText(sort_strings(merged_strings, keys))]
          /\ coding' = [coding EXCEPT
                           !["old"] = CodingOf(WriteText(sort_strings(merged_strings, keys)))]
    /\ fpc' = "done"
    /\ UNCHANGED before
    /\ UNCHANGED <<mergeVars, parserVars, tableVars, runVars, findVars>>

\* CopyNew that writes the strings parsed from the new file.
CopyNew_Rewritten ==
    /\ fpc = "new_parsed"
    /\ disk["old"] = Absent
    /\ \E keys \in Orders(DOMAIN new_strings) :
          /\ disk' = [disk EXCEPT !["copy"] = WriteText(sort_strings(new_strings, keys))]
          /\ coding' = [coding EXCEPT
                           !["copy"] = CodingOf(WriteText(sort_strings(new_strings, keys)))]
    /\ fpc' = "done"
    /\ UNCHANGED <<before, output>>
    /\ UNCHANGED <<mergeVars, parserVars, tableVars, runVars, findVars>>

\* shutil.copy(new_file_path, folder_path), the old file not existing (lines
\* 916-919).
CopyNew ==
    /\ fpc = "new_parsed"
    /\ disk["old"] = Absent
    /\ disk' = [disk EXCEPT !["copy"] = disk["new"]]
    /\ coding' = [coding EXCEPT !["copy"] = coding["new"]]
    /\ fpc' = "done"
    /\ UNCHANGED <<before, output>>
    /\ UNCHANGED <<mergeVars, parserVars, tableVars, runVars, findVars>>

\* No run.
NoRun ==
    /\ tool = "none"
    /\ temp_folder = "none"
    /\ temp_files = <<>>
    /\ pending = {}
    /\ processed = {}
    /\ rpc = "idle"

\* find_sources is not called.
NoFind ==
    /\ tree = [d \in Dirs |-> {}]
    /\ extensions = Nothing
    /\ ignore_patterns = Nothing
    /\ code_file_paths = {}
    /\ spc = "idle"

\* gen_strings or gen_strings_interface is called; find_sources has returned the
\* interface files (lines 826, 874).
InitRun ==
    /\ tool \in {"genstrings", "ibtool"}
    /\ temp_folder = "none"
    /\ temp_files = <<>>
    /\ pending \in SUBSET TableNames
    /\ tool = "genstrings" => pending = {}
    /\ processed = {}
    /\ rpc = "call"

\* temp_folder_path = tempfile.mkdtemp() (lines 832, 880)
MakeTemp ==
    /\ rpc = "call"
    /\ temp_folder' = "exists"
    /\ rpc' = "tempdir"
    /\ UNCHANGED <<tool, temp_files, pending, processed>>
    /\ UNCHANGED <<mergeVars, parserVars, tableVars, fileVars, findVars>>

\* subprocess.call of genstrings returns (line 884), whatever its exit status:
\* it has written table files into the temporary folder, or none.
Genstrings ==
    /\ tool = "genstrings"
    /\ rpc = "tempdir"
    /\ \E names \in SUBSET TableNames : temp_files' \in [names -> RunFiles]
    /\ rpc' = "listed"
    /\ UNCHANGED <<tool, temp_folder, pending, processed>>
    /\ UNCHANGED <<mergeVars, parserVars, tableVars, fileVars, findVars>>

\* subprocess.call raises OSError, the tool not being installed (lines 843,
\* 884): the run ends with the exception.
ToolMissing ==
    /\ rpc = "tempdir"
    /\ tool = "ibtool" => pending # {}
    /\ rpc' = "failed"
    /\ UNCHANGED <<tool, temp_folder, temp_files, pending, processed>>
    /\ UNCHANGED <<mergeVars, parserVars, tableVars, fileVars, findVars>>

\* One turn of the loop of gen_strings (lines 888-894): merge_files of a file of
\* the temporary folder returns and the file is removed.
MergeTable ==
    /\ tool = "genstrings"
    /\ rpc = "listed"
    /\ \E temp_file \in DOMAIN temp_files :
          /\ Readable(temp_files[temp_file])
          /\ processed' = processed \cup {temp_file}
          /\ temp_files' = WithoutFile(temp_files, temp_file)
    /\ UNCHANGED <<tool, temp_folder, pending, rpc>>
    /\ UNCHANGED <<mergeVars, parserVars, tableVars, fileVars, findVars>>

\* merge_files of a file of the temporary folder raises (line 893): the run ends
\* with the exception.
MergeRaises ==
    /\ tool = "genstrings"
    /\ rpc = "listed"
    /\ \E temp_file \in DOMAIN temp_files : ~Readable(temp_files[temp_file])
    /\ rpc' = "failed"
    /\ UNCHANGED <<tool, temp_folder, temp_files, pending, processed>>
    /\ UNCHANGED <<mergeVars, parserVars, tableVars, fileVars, findVars>>

\* One turn of the loop of gen_strings_interface (lines 834-848): ibtool writes
\* a table file that parse_file can read, merge_files returns and the file is
\* removed.
Export ==
    /\ tool = "ibtool"
    /\ rpc = "tempdir"
    /\ \E name \in pending :
          /\ processed' = processed \cup {name}
          /\ pending' = pending \ {name}
    /\ UNCHANGED <<tool, temp_folder, temp_files, rpc>>
    /\ UNCHANGED <<mergeVars, parserVars, tableVars, fileVars, findVars>>

\* ibtool returns without a table file, or with one that parse_file cannot read,
\* and merge_files raises (line 847): the run ends with the exception.
ExportRaises ==
    /\ tool = "ibtool"
    /\ rpc = "tempdir"
    /\ \E name \in pending :
          \E export \in {Nothing} \cup {Just(f) : f \in {g \in RunFiles : ~Readable(g)}} :
             temp_files' = IF export = Nothing THEN temp_files
                           ELSE WithFile(temp_files, name, export[1])
    /\ rpc' = "failed"
    /\ UNCHANGED <<tool, temp_folder, pending, processed>>
    /\ UNCHANGED <<mergeVars, parserVars, tableVars, fileVars, findVars>>

\* shutil.rmtree(temp_folder_path) after the loop (lines 849, 895).
RemoveTemp ==
    /\ \/ tool = "genstrings" /\ rpc = "listed" /\ DOMAIN temp_files = {}
       \/ tool = "ibtool" /\ rpc = "tempdir" /\ pending = {}
    /\ temp_folder' = "removed"
    /\ rpc' = "done"
    /\ UNCHANGED <<tool, temp_files, pending, processed>>
    /\ UNCHANGED <<mergeVars, parserVars, tableVars, fileVars, findVars>>

\* find_sources is called on a tree of directories, with no extensions or with h
\* and m, with no ignore patterns or with some of v and s.
InitFind ==
    /\ tree \in [Dirs -> SUBSET FileNames]
    /\ extensions \in {Nothing, Just({<<"h">>, <<"m">>})}
    /\ ignore_patterns \in {Nothing} \cup {Just(s) : s \in SUBSET {<<"v">>, <<"s">>}}
    /\ code_file_paths = {}
    /\ spc = "call"

\* find_sources runs from its call to its return.
FindSources ==
    /\ spc = "call"
    /\ code_file_paths' = find_sources(tree, extensions, ignore_patterns)
    /\ spc' = "return"
    /\ UNCHANGED <<tree, extensions, ignore_patterns>>
    /\ UNCHANGED <<mergeVars, parserVars, tableVars, fileVars, runVars>>

\* The merges of tables.
Init == InitMerge /\ InitParser /\ NoTable /\ NoFiles /\ NoRun /\ NoFind

Next == Merge \/ NextRun

Spec == Init /\ [][Next]_vars

\* The parser fed with lines.
ParserInit == NoMerge /\ InitParser /\ NoTable /\ NoFiles /\ NoRun /\ NoFind

ParserNext == ParseLine

ParserSpec == ParserInit /\ [][ParserNext]_vars

\* A table written, read back and written again.
TableInit == NoMerge /\ InitParser /\ InitTable /\ NoFiles /\ NoRun /\ NoFind

TableNext == WriteTable \/ ReadTable

TableSpec == TableInit /\ [][TableNext]_vars

\* merge_files.
FileInit == InitFiles /\ InitParser /\ NoTable /\ NoRun /\ NoFind

FileNext == ParseNew \/ ParseOld \/ ParseFails \/ Merge \/ OpenOld \/ WriteOld \/ CopyNew

FileSpec == FileInit /\ [][FileNext]_vars

\* The runs of gen_strings and gen_strings_interface.
RunInit == NoMerge /\ InitParser /\ NoTable /\ NoFiles /\ InitRun /\ NoFind

RunNext ==
    MakeTemp \/ Genstrings \/ ToolMissing \/ MergeTable \/ MergeRaises \/ Export
        \/ ExportRaises \/ RemoveTemp

RunSpec == RunInit /\ [][RunNext]_vars

\* find_sources on the trees.
FindInit == NoMerge /\ InitParser /\ NoTable /\ NoFiles /\ NoRun /\ InitFind

FindSpec == FindInit /\ [][FindSources]_vars

\* ================================================================ claims
\* In a state with mpc = "return", old_strings and new_in are the two tables
\* merge_strings was called with and merged_strings is what it returned.

Returned == mpc = "return"

InBoth == DOMAIN old_strings \cap DOMAIN new_in

\* C1: for every key in both tables, and for both values of the flag, the merged
\* value is the new value when the old string is raw and the old value otherwise.
C1_ValueRule ==
    Returned =>
        \A k \in InBoth :
            /\ k \in DOMAIN merged_strings
            /\ merged_strings[k].value =
                  IF old_strings[k].value = k THEN new_in[k].value
                                              ELSE old_strings[k].value

\* A merge has returned with a raw old string whose new value is a translation
\* and a translated old string whose new value is another one.
C1_Witness ==
    /\ Returned
    /\ \E k \in InBoth : is_raw(old_strings[k]) /\ new_in[k].value # k
    /\ \E k \in InBoth : ~is_raw(old_strings[k])
                          /\ new_in[k].value # old_strings[k].value

\* C2: the keys of the merged table are exactly the keys of new; a key of old
\* alone is not in the result.
C2_KeySet ==
    Returned =>
        /\ DOMAIN merged_strings = InBoth \cup (DOMAIN new_in \ DOMAIN old_strings)
        /\ DOMAIN merged_strings = DOMAIN new_in
        /\ \A k \in DOMAIN old_strings \ DOMAIN new_in : k \notin DOMAIN merged_strings

\* A merge has returned where one key is in old alone and another in both.
C2_Witness ==
    /\ Returned
    /\ DOMAIN old_strings \ DOMAIN new_in # {}
    /\ InBoth # {}

\* C3: a key of new alone is in the merged table with new's value and comment, for
\* both values of the flag.
C3_NewOnly ==
    Returned =>
        \A k \in DOMAIN new_in \ DOMAIN old_strings :
            /\ k \in DOMAIN merged_strings
            /\ merged_strings[k].value = new_in[k].value
            /\ merged_strings[k].comment = new_in[k].comment

\* A merge has returned where a key is in new alone, carrying a translation, while
\* old is not empty.
C3_Witness ==
    /\ Returned
    /\ old_strings # EmptyDict
    /\ \E k \in DOMAIN new_in \ DOMAIN old_strings : new_in[k].value # k

\* C4: without keep_comment, the merged comment of a key in both tables is the new
\* comment, the old string raw or translated.
C4_NewComment ==
    (Returned /\ ~keep_comment) =>
        \A k \in InBoth : /\ k \in DOMAIN merged_strings
                          /\ merged_strings[k].comment = new_in[k].comment

\* Without keep_comment a merge has returned with a raw and a translated old
\* string, each with a new comment that differs from the old one.
C4_Witness ==
    /\ Returned /\ ~keep_comment
    /\ \E k \in InBoth : is_raw(old_strings[k])
                          /\ old_strings[k].comment # new_in[k].comment
    /\ \E k \in InBoth : ~is_raw(old_strings[k])
                          /\ old_strings[k].comment # new_in[k].comment

\* C5 as stated: with keep_comment, every key of old has its old comment in the
\* merged table.
C5_Original ==
    (Returned /\ keep_comment) =>
        \A k \in DOMAIN old_strings :
            /\ k \in DOMAIN merged_strings
            /\ merged_strings[k].comment = old_strings[k].comment

\* C5 amended: with keep_comment, every key of old that is in new too has its old
\* comment in the merged table.
C5_OldComment ==
    (Returned /\ keep_comment) =>
        \A k \in InBoth :
            /\ k \in DOMAIN merged_strings
            /\ merged_strings[k].comment = old_strings[k].comment

\* With keep_comment a merge has returned with a raw and a translated old string,
\* each with a new comment that differs from the old one.
C5_Witness ==
    /\ Returned /\ keep_comment
    /\ \E k \in InBoth : is_raw(old_strings[k])
                          /\ old_strings[k].comment # new_in[k].comment
    /\ \E k \in InBoth : ~is_raw(old_strings[k])
                          /\ old_strings[k].comment # new_in[k].comment

\* The merged comment of k comes from new: it is the new comment, and the key has
\* no old string or an old string with another comment.
CommentFromNew(k) ==
    /\ merged_strings[k].comment = new_in[k].comment
    /\ k \in DOMAIN old_strings => old_strings[k].comment # new_in[k].comment

\* C6 as stated: with keep_comment, for every key of the merged table a translated
\* old value wins and the comment comes from new only when the old string was raw.
C6_Original ==
    (Returned /\ keep_comment) =>
        \A k \in DOMAIN merged_strings :
            /\ (k \in DOMAIN old_strings /\ ~is_raw(old_strings[k]))
                  => merged_strings[k].value = old_strings[k].value
            /\ CommentFromNew(k) => (k \in DOMAIN old_strings /\ is_raw(old_strings[k]))

\* C6 amended: with keep_comment, for every key of the merged table a translated
\* old value wins, the comment is the old one whenever the key has an old string
\* (raw or translated), and it comes from new only when the key has no old string.
C6_NetEffect ==
    (Returned /\ keep_comment) =>
        \A k \in DOMAIN merged_strings :
            /\ (k \in DOMAIN old_strings /\ ~is_raw(old_strings[k]))
                  => merged_strings[k].value = old_strings[k].value
            /\ k \in DOMAIN old_strings
                  => merged_strings[k].comment = old_strings[k].comment
            /\ CommentFromNew(k) <=> k \notin DOMAIN old_strings

\* With keep_comment a merge has returned with a raw old string whose new comment
\* differs, and with a key of new alone.
C6_Witness ==
    /\ Returned /\ keep_comment
    /\ \E k \in InBoth : is_raw(old_strings[k])
                          /\ old_strings[k].comment # new_in[k].comment
                          /\ new_in[k].value # k
    /\ DOMAIN new_in \ DOMAIN old_strings # {}

\* C7: merging a table with an equal table returns an equal table: the same keys,
\* each with an equal string.
C7_Idempotent ==
    (Returned /\ old_strings = new_in) =>
        /\ DOMAIN merged_strings = DOMAIN old_strings
        /\ \A k \in DOMAIN old_strings : LsEq(merged_strings[k], old_strings[k])

\* A table with a raw and a translated string has been merged with an equal one.
C7_Witness ==
    /\ Returned /\ old_strings = new_in
    /\ \E k \in DOMAIN old_strings : is_raw(old_strings[k])
    /\ \E k \in DOMAIN old_strings : ~is_raw(old_strings[k])

\* C8: the merged table is a function of the two tables and the flag: every order
\* of iterating old and new gives the table that was returned, which is new with,
\* for each key of old, the string the two strings of that key merge to.
C8_Deterministic ==
    Returned =>
        /\ \A order1 \in Orders(DOMAIN old_strings) :
             \A order2 \in Orders(DOMAIN new_in \ DOMAIN old_strings) :
                MergeStrings(old_strings, new_in, keep_comment, order1, order2).merged
                   = merged_strings
        /\ merged_strings =
              [k \in DOMAIN new_in |->
                  IF k \in DOMAIN old_strings
                  THEN MergeBoth(old_strings[k], new_in[k], keep_comment)
                  ELSE new_in[k]]

\* A merge has returned whose first loop had two orders to choose from: two keys
\* are in both tables, one raw and one translated in old.
C8_Witness ==
    /\ Returned
    /\ Cardinality(InBoth) >= 2
    /\ \E k \in InBoth : is_raw(old_strings[k])
    /\ \E k \in InBoth : ~is_raw(old_strings[k])

\* C9: a value that was a translation in the first old table is the value of its
\* key after every merge of the chain, as long as every new table held the key.
C9_Sticky ==
    Returned =>
        \A k \in Keys :
            sticky[k] # None =>
                /\ k \in DOMAIN merged_strings
                /\ merged_strings[k].value = sticky[k]
                /\ sticky[k] # k

\* The last merge of a chain has returned for a key that was translated at the
\* start, the new table carrying another translation and another comment.
C9_Witness ==
    /\ Returned /\ runs = MaxRuns
    /\ \E k \in Keys : /\ sticky[k] # None
                       /\ new_in[k].value \notin {k, sticky[k]}
                       /\ new_in[k].comment # old_strings[k].comment

\* The forms of a complete key/value line of key k and value v: with and without
\* the blanks around '=', with and without the line feed.
PairForms(k, v) ==
    {PairLine(k, v), PairLineTight(k, v), PairLine(k, v) \o NL, PairLineTight(k, v) \o NL}

\* The lines that are neither a complete key/value line nor the start of a
\* multi-line value: blank lines, stray text, comment lines, and the first and last
\* lines of a multi-line comment and the last line of a multi-line value.
OtherLines ==
    BlankLines \cup StrayLines \cup CommentLines \cup CommentStartLines
        \cup CommentEndLines \cup ValueEndLines

\* A call of parse_line has been made in this step.
Called == fed' = fed + 1

\* C10: a comment line in state COMMENT takes the parser to state STRING with the
\* comment pending; there every line that is neither a complete key/value line nor
\* the start of a multi-line value returns nothing and leaves the state and the
\* pending comment; a complete key/value line returns the string of its key, its
\* value and the pending comment and takes the parser back to state COMMENT.
C10_CommentThenPair ==
    [][Called =>
        /\ \A c \in LineComments :
              (parser.parse_state = "COMMENT" /\ line' \in {CommentLine(c), CommentLine(c) \o NL})
                 => /\ parser'.parse_state = "STRING"
                    /\ parser'.comment = c
                    /\ returned' = Nothing
        /\ (parser.parse_state = "STRING" /\ line' \in OtherLines)
              => /\ parser'.parse_state = "STRING"
                 /\ parser'.comment = parser.comment
                 /\ returned' = Nothing
        /\ \A k \in KeyTexts, v \in ValueTexts :
              (parser.parse_state = "STRING" /\ line' \in PairForms(k, v))
                 => /\ returned' = Just(LocalizedString(k, v, parser.comment))
                    /\ parser'.parse_state = "COMMENT"
      ]_vars

\* After a comment line and two lines that state STRING let pass, a key/value line
\* has returned the string with that comment.
C10_Witness ==
    /\ line = PairLine(<<"a">>, <<"x">>)
    /\ returned = Just(LocalizedString(<<"a">>, <<"x">>, <<"c">>))
    /\ parser.parse_state = "COMMENT"
    /\ waited = 2
    /\ fed = 4

\* The forms of a key/value line with a trailing comment: with and without the
\* optional blanks, with and without the line feed.
TrailingForms(k, v, c) ==
    {TrailingLine(k, v, c), TrailingLineTight(k, v, c),
     TrailingLine(k, v, c) \o NL, TrailingLineTight(k, v, c) \o NL}

\* C11: in state COMMENT a line "K" = "V"; /* C */ returns the string (K, V, C) on
\* that call and leaves the parser in state COMMENT with no comment pending and no
\* multi-line comment begun: the line is not taken for a comment line.
C11_TrailingShortcut ==
    [][Called =>
        \A k \in KeyTexts, v \in ValueTexts, c \in LineComments :
            (parser.parse_state = "COMMENT" /\ line' \in TrailingForms(k, v, c))
               => /\ returned' = Just(LocalizedString(k, v, c))
                  /\ parser'.parse_state = "COMMENT"
                  /\ parser'.comment = None
                  /\ parser'.comment_partial = parser.comment_partial
      ]_vars

\* A line with a trailing comment has returned its string to a parser that was,
\* and is, in state COMMENT.
C11_Witness ==
    /\ line = TrailingLine(<<"a">>, <<"x">>, <<"c">>)
    /\ returned = Just(LocalizedString(<<"a">>, <<"x">>, <<"c">>))
    /\ parser.parse_state = "COMMENT"
    /\ waited = 0
    /\ fed = 2

\* A line without its line feed.
Content(l) ==
    IF l # <<>> /\ l[Len(l)] = "\n" THEN SubSeq(l, 1, Len(l) - 1) ELSE l

\* A line of the form Vn"; with Vn not empty.
ClosesValue(l) ==
    /\ Len(Content(l)) > 2
    /\ SubSeq(Content(l), Len(Content(l)) - 1, Len(Content(l))) = <<QUOTE, ";">>

\* The forms of the opening line of a multi-line value.
ValueStartForms(k, v) ==
    {ValueStartLine(k, v), ValueStartLineTight(k, v),
     ValueStartLine(k, v) \o NL, ValueStartLineTight(k, v) \o NL}

ClosesComment(l) ==
    /\ Len(Content(l)) > 2
    /\ SubSeq(Content(l), Len(Content(l)) - 1, Len(Content(l))) = <<"*", "/">>

RECURSIVE Squeeze(_)
Squeeze(t) ==
    IF t = <<>> THEN <<>>
    ELSE IF t[1] = " " /\ Len(t) > 1 /\ t[2] = "=" THEN Squeeze(Tail(t))
    ELSE IF t[1] = "=" /\ Len(t) > 1 /\ t[2] = " "
         THEN Squeeze(<<"=">> \o SubSeq(t, 3, Len(t)))
    ELSE <<t[1]>> \o Squeeze(Tail(t))

\* The last line of a rendering: its key/value line.
KeyValueLine(t) == SplitLines(t)[Len(SplitLines(t))]

MatchesNothing(p, l) ==
    CASE p.parse_state = "COMMENT" ->
            /\ parse_trailing_comment(l) = <<None, None, None>>
            /\ parse_comment(l) = None
            /\ parse_multiline_comment_start(l) = None
      [] p.parse_state = "COMMENT_MULTILINE" ->
            /\ parse_multiline_comment_end(l) = None
            /\ parse_multiline_comment_line(l) = None
      [] p.parse_state = "TRAILING_COMMENT" -> parse_comment(l) = None
      [] p.parse_state = "STRING" ->
            /\ parse_localized_pair(l) = <<None, None>>
            /\ parse_multiline_start(l) = <<None, None>>
      [] p.parse_state = "STRING_MULTILINE" ->
            /\ parse_multiline_end(l) = None
            /\ parse_multiline_line(l) = None

\* C16: no call of parse_line raises, whatever lines were fed since the parser was
\* made; every call returns a string or nothing; a line that matches no
\* expression of the current state returns nothing and leaves the state, the
\* pending comment, the key, and the partial comment or value of an open
\* multi-line comment or value as they were.
C16_NeverRaises ==
    [][Called =>
        /\ ~raised'
        /\ \/ returned' = Nothing
           \/ /\ Len(returned') = 1
              /\ DOMAIN returned'[1] = {"key", "value", "comment"}
        /\ MatchesNothing(parser, line')
              => /\ returned' = Nothing
                 /\ parser'.parse_state = parser.parse_state
                 /\ parser'.comment = parser.comment
                 /\ parser'.key = parser.key
                 /\ parser.parse_state = "COMMENT_MULTILINE"
                       => parser'.comment_partial = parser.comment_partial
                 /\ parser.parse_state = "STRING_MULTILINE"
                       => parser'.value_partial = parser.value_partial
      ]_vars

\* A blank line inside a multi-line value, after a line of it was joined, has left
\* the partial value as it was.
C16_Witness ==
    /\ fed = 4
    /\ ~raised
    /\ line = NL
    /\ returned = Nothing
    /\ parser.parse_state = "STRING_MULTILINE"
    /\ parser.value_partial = <<"x", "\n", "w">>
    /\ parser.comment = <<"c">>

\* C17: the dictionary of parse_file holds exactly the keys of the strings parse_line
\* has returned, and maps each key to the last string returned with that key.
C17_LastDuplicate ==
    /\ DOMAIN localized_strings = {emitted[i].key : i \in 1..Len(emitted)}
    /\ \A i \in 1..Len(emitted) :
          (\A j \in (i + 1)..Len(emitted) : emitted[j].key # emitted[i].key)
             => localized_strings[emitted[i].key] = emitted[i]

\* Two different strings of key a were returned, and the dictionary holds the
\* second.
C17_Witness ==
    /\ Len(emitted) = 2
    /\ emitted[1].key = <<"a">>
    /\ emitted[2].key = <<"a">>
    /\ emitted[1] # emitted[2]
    /\ DOMAIN localized_strings = {<<"a">>}
    /\ localized_strings[<<"a">>] = emitted[2]

\* C15: a table written, read back and written again is the table given, and the
\* file written again is the file written first.
C15_RoundTrip ==
    tpc = "rewritten"
       => /\ strings = given
          /\ \A keys \in Orders(DOMAIN given) :
                disk["old"] = WriteText(sort_strings(given, keys))

\* The keys in ascending order.
AscendingKeys == <<<<"a">>, <<"a", "b">>, <<"b">>>>

InTable(k) == k \in DOMAIN strings

\* C18: write_file writes every string of the table once, each rendered and
\* followed by a line feed, in the ascending order of the keys, whatever the order
\* in which the dictionary gives its keys.
C18_WriteOrder ==
    tpc \in {"written", "rewritten"}
       => /\ Len(output) = Cardinality(DOMAIN strings)
          /\ \A i \in 1..Len(output) :
                /\ output[i].key = SelectSeq(AscendingKeys, InTable)[i]
                /\ output[i] = strings[output[i].key]
          /\ disk["old"] = WriteText(output)

\* A table of the three keys was written: the strings of keys a, ab and b in this
\* order.
C18_Witness ==
    /\ tpc = "written"
    /\ Len(output) = 3
    /\ output[1].key = <<"a">>
    /\ output[2].key = <<"a", "b">>
    /\ output[3].key = <<"b">>
    /\ output[2] # output[3]

\* The dictionary is the one merge_strings returns for the two files as they were
\* when merge_files was called.
MergedOfFiles(d) ==
    \E order1 \in Orders(DOMAIN ParseFile(before["old"]).strings) :
       \E order2 \in Orders(DOMAIN ParseFile(before["new"]).strings
                               \ DOMAIN ParseFile(before["old"]).strings) :
          d = MergeStrings(ParseFile(before["old"]).strings,
                           ParseFile(before["new"]).strings,
                           keep_comment, order1, order2).merged

C19_WitnessCopy ==
    /\ fpc = "done"
    /\ before["old"] = Absent
    /\ disk["copy"] = before["new"]
    /\ before["new"] \notin WrittenTexts

\* C20: the old file changes only once both files were read and merge_strings
\* has returned the dictionary merged from them; and when parse_file has
\* raised, every file is as it was when merge_files was called.
C20_NoPartialOverwrite ==
    [][/\ disk'["old"] # disk["old"]
            => /\ fpc \in {"old_parsed", "open"}
               /\ mpc = "return"
               /\ new_in = ParseFile(before["new"]).strings
               /\ old_strings = ParseFile(before["old"]).strings
               /\ MergedOfFiles(merged_strings)
       /\ fpc' = "failed" => disk' = before
      ]_vars

\* parse_file raised on the old file after the new file was read: the old file
\* is as it was.
C20_Witness ==
    /\ fpc = "failed"
    /\ new_strings # EmptyDict
    /\ before["old"] \notin {Absent, <<>>}
    /\ disk["old"] = before["old"]

\* C30: a call of merge_strings leaves the old dictionary as it was, keys and
\* strings, and leaves in the new dictionary exactly the keys that are not in
\* old, each with the string it had.
C30_FrameEffect ==
    [][(mpc = "call" /\ mpc' = "return")
          => /\ old_strings' = old_strings
             /\ DOMAIN new_strings' = DOMAIN new_strings \ DOMAIN old_strings
             /\ \A k \in DOMAIN new_strings' : new_strings'[k] = new_strings[k]
      ]_vars

\* merge_strings has returned for tables that share key a, old alone holding no
\* key and new alone holding key b: new holds b only.
C30_Witness ==
    /\ Returned
    /\ runs = 1
    /\ DOMAIN old_strings = {<<"a">>}
    /\ DOMAIN new_in = {<<"a">>, <<"b">>}
    /\ DOMAIN new_strings = {<<"b">>}
    /\ new_strings[<<"b">>] = new_in[<<"b">>]

\* The changes of state the parser may make.
Transitions ==
    {<<"COMMENT", "STRING">>, <<"COMMENT", "COMMENT_MULTILINE">>,
     <<"COMMENT_MULTILINE", "STRING">>, <<"STRING", "COMMENT">>,
     <<"STRING", "STRING_MULTILINE">>, <<"STRING_MULTILINE", "COMMENT">>}

\* C24: every call of parse_line leaves the state as it is or changes it along one
\* of the six transitions; a string is returned only by a call that takes the
\* parser from STRING or STRING_MULTILINE to COMMENT, or that finds and leaves it in
\* COMMENT with a line that has a trailing comment.
C24_Transitions ==
    [][Called =>
        /\ \/ parser'.parse_state = parser.parse_state
           \/ <<parser.parse_state, parser'.parse_state>> \in Transitions
        /\ returned' # Nothing
              => \/ /\ parser.parse_state \in {"STRING", "STRING_MULTILINE"}
                    /\ parser'.parse_state = "COMMENT"
                 \/ /\ parser.parse_state = "COMMENT"
                    /\ parser'.parse_state = "COMMENT"
                    /\ \E k \in KeyTexts, v \in ValueTexts, c \in LineComments :
                          line' \in TrailingForms(k, v, c)
      ]_vars

\* The parser has gone through a multi-line comment and a multi-line value back to
\* state COMMENT, returning the string on the last call.
C24_Witness ==
    /\ fed = 4
    /\ parser.parse_state = "COMMENT"
    /\ returned # Nothing
    /\ returned[1].comment = <<"c", "\n", "d", " ">>
    /\ returned[1].value = <<"x", "\n", "y">>

\* C25: after every call that returns a string the parser is in state COMMENT, its
\* key, value and comment are None and no partial comment or value is kept.
C25_Reset ==
    [][(Called /\ returned' # Nothing)
          => /\ parser'.parse_state = "COMMENT"
             /\ parser'.key = None
             /\ parser'.value = None
             /\ parser'.comment = None
             /\ parser'.comment_partial \in {None, Unset}
             /\ parser'.value_partial \in {None, Unset}
      ]_vars

\* Two strings were returned one after the other, the second with the comment of
\* its own line, and the parser is reset.
C25_Witness ==
    /\ Len(emitted) = 2
    /\ emitted[1].comment = <<"c">>
    /\ emitted[2].comment = <<"d", " ", "e">>
    /\ returned = Just(emitted[2])
    /\ parser.parse_state = "COMMENT"
    /\ parser.comment = None

\* A text of at least one character.
IsText(t) == t # None /\ t # Unset /\ t # <<>>

\* C29: every string returned has a key, a value and a comment that are texts
\* of at least one character; and a key/value line fed in state COMMENT, where no
\* comment is pending, returns nothing.
C29_Complete ==
    [][Called =>
        /\ returned' # Nothing
              => /\ IsText(returned'[1].key)
                 /\ IsText(returned'[1].value)
                 /\ IsText(returned'[1].comment)
        /\ \A k \in KeyTexts, v \in ValueTexts :
              (parser.parse_state = "COMMENT" /\ line' \in PairForms(k, v))
                 => /\ returned' = Nothing
                    /\ localized_strings' = localized_strings
      ]_vars

\* A key/value line was fed as the first line, then a comment line and the same
\* key/value line: only the second has returned a string.
C29_Witness ==
    /\ fed = 3
    /\ line = PairLine(<<"a">>, <<"x">>)
    /\ emitted = <<LocalizedString(<<"a">>, <<"x">>, <<"c">>)>>
    /\ waited = 0

\* Text sub occurs in line l.
Contains(l, sub) ==
    \E i \in 1..(Len(l) - Len(sub) + 1) : SubSeq(l, i, i + Len(sub) - 1) = sub

\* C26: in state COMMENT only a line that starts with /* and a blank and holds no
\* */ takes the parser to state COMMENT_MULTILINE; a line that opens a comment
\* and closes it, with or without a blank before */, does not.
C26_UnclosedCommentStart ==
    [][(Called /\ parser.parse_state = "COMMENT"
               /\ parser'.parse_state = "COMMENT_MULTILINE")
          => /\ Len(line') > 3
             /\ SubSeq(line', 1, 3) = <<"/", "*", " ">>
             /\ ~Contains(line', <<"*", "/">>)
      ]_vars

\* C27: in state STRING only a line "K" = "V that holds no closing quote and
\* semicolon takes the parser to state STRING_MULTILINE; a line with a complete
\* "K" = "V"; alone, or followed by blanks or by a comment, does not.
C27_UnclosedValueStart ==
    [][(Called /\ parser.parse_state = "STRING"
               /\ parser'.parse_state = "STRING_MULTILINE")
          => /\ \E k \in KeyTexts :
                   \/ SubSeq(line', 1, Len(k) + 6) = <<QUOTE>> \o k \o <<QUOTE, " ", "=", " ", QUOTE>>
                   \/ SubSeq(line', 1, Len(k) + 4) = <<QUOTE>> \o k \o <<QUOTE, "=", QUOTE>>
             /\ ~Contains(line', <<QUOTE, ";">>)
      ]_vars

\* C28: the table parse_file returns is the one a parser just created, with an
\* empty dictionary, gives for the lines of the one decoding of the file that is
\* complete: the new table holds nothing of a utf16 pass that failed, and the old
\* table nothing of the new file parsed before it.
C28_OneDecoding ==
    /\ fpc = "new_parsed"
          => /\ coding["new"].good = "all"
             /\ new_strings = ParseFile(before["new"]).strings
    /\ (fpc = "old_parsed" /\ mpc = "call")
          => /\ coding["old"].good = "all"
             /\ old_strings = ParseFile(before["old"]).strings

\* The new file was read as utf8 after the utf16 pass failed, the old file after
\* the new one, and both hold strings.
C28_Witness ==
    /\ fpc = "old_parsed"
    /\ mpc = "call"
    /\ coding["new"] = Utf8
    /\ new_in # EmptyDict
    /\ old_strings # EmptyDict
    /\ old_strings # new_in

\* C21: when a run has ended, with or without an exception, its temporary folder
\* is removed.
C21_TempRemoved == rpc \in {"done", "failed"} => temp_folder = "removed"

\* C22: when a run of gen_strings has ended, every table file of the temporary
\* folder that decodes, as utf16 or else as utf8, has been merged: none is left
\* unprocessed because another file did not decode.
C22_OthersProcessed ==
    (tool = "genstrings" /\ rpc \in {"done", "failed"})
       => \A n \in DOMAIN temp_files : ~Readable(temp_files[n])

\* The file name has a dot, and the text after its last dot is among exts.
HasExtensionIn(file_name, exts) ==
    \E i \in 1..Len(file_name) :
       /\ file_name[i] = "."
       /\ \A j \in (i + 1)..Len(file_name) : file_name[j] # "."
       /\ SubSeq(file_name, i + 1, Len(file_name)) \in exts

\* C23: find_sources returns exactly the files whose text after the last dot is
\* in the extension set (c, m, mm when none is given) and whose directory path
\* holds none of the ignore patterns.
C23_Enumeration ==
    spc = "return"
       => code_file_paths =
             UNION {{Join(d, f) :
                       f \in {g \in tree[d] :
                                HasExtensionIn(g, IF extensions = Nothing
                                                  THEN {<<"c">>, <<"m">>, <<"m", "m">>}
                                                  ELSE extensions[1])}} :
                      d \in {e \in Dirs :
                                \/ ignore_patterns = Nothing
                                \/ \A p \in ignore_patterns[1] : ~Contains(e, p)}}

\* C31: whatever lines a parser just created is fed, its state is never
\* TRAILING_COMMENT: every call of parse_line finds it in one of the four other
\* states, so the branch of that state does not run.
C31_TrailingUnreachable ==
    parser.parse_state \in ParseStates \ {"TRAILING_COMMENT"}

\* The parser has returned a string for a comment followed by a key/value line,
\* and then one for a key/value line with a trailing comment, and is in state
\* COMMENT.
C31_Witness ==
    /\ fed = 3
    /\ Len(emitted) = 2
    /\ \E k \in KeyTexts, v \in ValueTexts, c \in LineComments :
          line \in TrailingForms(k, v, c)
    /\ returned # Nothing
    /\ parser.parse_state = "COMMENT"

====
